---- MODULE Spec2Model ----
(***************************************************************************)
(* A model of the data layer of avoid_everything/data_loader.py: the       *)
(* datasets Base / StateDataset / TrajectoryDataset over a read-only       *)
(* trajectory archive, the configuration codec clamp_and_normalize and the *)
(* labelled point cloud assembled for every item; the DataModule that      *)
(* creates the datasets of each split, its loaders and its checksum        *)
(* report; and the loader workers that run dataset operations side by      *)
(* side, each through its own archive handle.                              *)
(*                                                                         *)
(* Joint angles are integers in units of 1e-4 rad.  A normalized joint     *)
(* value is the exact rational <<num, den>> = num / den.  A sampled point  *)
(* is a record naming the group it was sampled for, what it was sampled at *)
(* (the configuration, the target or the obstacles) and its row number.    *)
(* Indices are 0-based as in the code; sequences are 1-based.              *)
(***************************************************************************)
EXTENDS Integers, Sequences, FiniteSets, TLC

VARIABLES
    exists,      \* the file system: the set of archive paths that exist
    ds,          \* the dataset object under use (its fields), or NoDataset
    last,        \* the outcome of the last operation (item, length or error)
    opened,      \* the archive handles the last operation opened: <<[path, mode]>>
    remembered,  \* an earlier __getitem__ outcome with its dataset, or the
                 \* data_* attribute `ds` was read from, or NoCall
    dm,          \* the DataModule: its hyperparameters and data_* attributes
    workers,     \* the loader workers: each one's position, local values and result
    handles      \* the open-file table: the archive handle of each worker's call

vars == <<exists, ds, last, opened, remembered, dm, workers, handles>>

(***************************************************************************)
(* Bounds of the model.                                                    *)
(***************************************************************************)
MaxTrajLen == 3     \* the longest trajectory of an archive
MaxChunk == 2       \* action_chunk_length ranges over 1..MaxChunk
MaxPoints == 2      \* each point count ranges over 1..MaxPoints
OverPct == 10       \* how far (percent of the range) codec inputs overshoot a limit

DOF == 7

Joints == 1..DOF

Min2(a, b) == IF a <= b THEN a ELSE b

Max2(a, b) == IF a >= b THEN a ELSE b

(***************************************************************************)
(* ConfigurationCodec.                                                     *)
(***************************************************************************)
\* RealFrankaConstants.JOINT_LIMITS, <<min, max>> per joint, in 1e-4 rad.
JOINT_LIMITS ==
    << <<-28973, 28973>>, <<-17628, 17628>>, <<-28973, 28973>>,
       <<-30718, -698>>, <<-28973, 28973>>, <<-175, 37525>>,
       <<-28973, 28973>> >>

JointLo(j) == JOINT_LIMITS[j][1]

JointHi(j) == JOINT_LIMITS[j][2]

JointRange(j) == JointHi(j) - JointLo(j)

\* normalize_franka_joints: the affine map of [min, max] onto [-1, 1],
\*   2 * (x - min) / (max - min) - 1, kept as the exact rational <<num, den>>.
normalize_franka_joints(x) ==
    [j \in Joints |-> <<2 * (x[j] - JointLo(j)) - JointRange(j), JointRange(j)>>]

\* torch.minimum(torch.maximum(x, limits[:, 0]), limits[:, 1])
Clamp(x) == [j \in Joints |-> Min2(Max2(x[j], JointLo(j)), JointHi(j))]

\* A codec that normalizes without clamping first.
clamp_and_normalize_noclamp(x) == normalize_franka_joints(x)

\* Base.clamp_and_normalize on one configuration (a tensor of dim [7]).
clamp_and_normalize(x) == normalize_franka_joints(Clamp(x))

\* Base.clamp_and_normalize on a [K, 7] tensor: the limits broadcast over rows.
clamp_and_normalize_rows(rows) ==
    [i \in 1..Len(rows) |-> clamp_and_normalize(rows[i])]

(***************************************************************************)
(* The on-disk layout and the trajectory archive (avoid_everything.dataset *)
(* Dataset, consumed through its interface).  An archive file holds        *)
(* problems 0..n-1 and, per trajectory collection (key), one trajectory    *)
(* per problem; the states of a collection are addressed by a global state *)
(* index in trajectory-major, timestep-minor order.                        *)
(***************************************************************************)
DatasetTypes == {"TRAIN", "VAL_STATE", "VAL", "MINI_TRAIN", "VAL_PRETRAIN", "TEST"}

\* The identifiers Base.load_from_directory accepts: a DatasetType member or
\* one of the names listed next to the members.
Recognized ==
    DatasetTypes \cup {"train", "val", "mini_train", "val_pretrain", "test"}

\* Base.load_from_directory: the subdirectory (enclosing_path) a recognized
\* identifier resolves into.
EnclosingPath(dataset_type) ==
    CASE dataset_type \in {"TRAIN", "train"} -> "train"
      [] dataset_type \in {"VAL_STATE", "val"} -> "val"
      [] dataset_type \in {"VAL", "val"} -> "val"
      [] dataset_type \in {"MINI_TRAIN", "mini_train"} -> "val"
      [] dataset_type \in {"VAL_PRETRAIN", "val_pretrain"} -> "val"
      [] dataset_type \in {"TEST", "test"} -> "test"

\* Base.load_from_directory: the archive file of a recognized identifier,
\* relative to the data directory.
DataPath(dataset_type) ==
    CASE dataset_type \in {"TRAIN", "train"} -> "train/train.hdf5"
      [] dataset_type \in {"VAL_STATE", "val"} -> "val/val.hdf5"
      [] dataset_type \in {"VAL", "val"} -> "val/val.hdf5"
      [] dataset_type \in {"MINI_TRAIN", "mini_train"} -> "val/mini_train.hdf5"
      [] dataset_type \in {"VAL_PRETRAIN", "val_pretrain"} -> "val/val_pretrain.hdf5"
      [] dataset_type \in {"TEST", "test"} -> "test/test.hdf5"

Paths == {DataPath(t) : t \in DatasetTypes}

Keys == {"global_solutions", "hybrid_solutions"}

\* The lengths of the trajectories of collection `key` in the file `path`.
TrajLens(path, key) ==
    IF path = "train/train.hdf5"
    THEN IF key = "global_solutions"
         THEN <<MaxTrajLen, MaxTrajLen - 1>>
         ELSE <<MaxTrajLen - 1, 1>>
    ELSE IF key = "global_solutions" THEN <<MaxTrajLen>> ELSE <<1>>

FileTag(path) ==
    CASE path = "train/train.hdf5" -> 1
      [] path = "val/val.hdf5" -> 2
      [] path = "val/mini_train.hdf5" -> 3
      [] path = "val/val_pretrain.hdf5" -> 4
      [] path = "test/test.hdf5" -> 5

\* The configuration stored at timestep s (1-based) of trajectory t (1-based).
\* The last state of every trajectory sits on the upper limit of joint 1 and
\* the second state lies below the lower limit of joint 4 (expert data is not
\* assumed to respect the limits).
StateAt(path, key, t, s) ==
    [j \in Joints |->
        CASE j = 1 -> JointHi(1) - 1000 * (TrajLens(path, key)[t] - s)
          [] j = 2 -> 1000 * FileTag(path) + 100 * t
                        + (IF key = "global_solutions" THEN 0 ELSE 10)
          [] j = 4 -> IF s = 2 THEN JointLo(4) - 500 ELSE -15000
          [] OTHER -> 0]

\* len(f): the number of problems of the file.
ArchiveLen(path) == Len(TrajLens(path, "global_solutions"))

RECURSIVE SumLens(_, _)
SumLens(lens, n) == IF n = 0 THEN 0 ELSE lens[n] + SumLens(lens, n - 1)

\* len(f[key]): the number of states of the collection.
GroupLen(path, key) == SumLens(TrajLens(path, key), Len(TrajLens(path, key)))

\* The global state index of the first state of trajectory pidx (0-based).
StartOf(path, key, pidx) == SumLens(TrajLens(path, key), pidx)

\* The global state index one past the last state of trajectory pidx.
EndOf(path, key, pidx) == SumLens(TrajLens(path, key), pidx + 1)

StateIndexOk(path, key, idx) == 0 <= idx /\ idx < GroupLen(path, key)

ProblemIndexOk(path, pidx) == 0 <= pidx /\ pidx < ArchiveLen(path)

\* f[key].lookup_pidx(idx), for an index in range (IndexError otherwise).
lookup_pidx(path, key, idx) ==
    CHOOSE p \in 0..(ArchiveLen(path) - 1) :
        StartOf(path, key, p) <= idx /\ idx < EndOf(path, key, p)

\* The configuration at a global state index.
StateOf(path, key, idx) ==
    LET p == lookup_pidx(path, key, idx)
    IN StateAt(path, key, p + 1, idx - StartOf(path, key, p) + 1)

\* f[key].state_range(idx, lookahead): the window of `lookahead`
\* configurations starting at idx, cut (not wrapped) at the trajectory's end.
state_range(path, key, idx, lookahead) ==
    LET stop == Min2(idx + lookahead, EndOf(path, key, lookup_pidx(path, key, idx)))
    IN [i \in 1..(stop - idx) |-> StateOf(path, key, idx + i - 1)]

\* f[key].problem(pidx): the target, the obstacles and the start configuration.
problem(path, key, pidx) ==
    [target |-> [file |-> FileTag(path), pidx |-> pidx],
     obstacles |-> [file |-> FileTag(path), pidx |-> pidx],
     q0 |-> StateAt(path, key, pidx + 1, 1)]

\* f[key].flattened_obstacles(pidx): the fixed-shape obstacle arrays.
flattened_obstacles(path, key, pidx) == [file |-> FileTag(path), pidx |-> pidx]

\* f[key].expert(pidx): the whole expert trajectory.
expert(path, key, pidx) ==
    [s \in 1..TrajLens(path, key)[pidx + 1] |-> StateAt(path, key, pidx + 1, s)]

\* f[key].padded_expert(pidx): the expert padded to a fixed length by
\* repeating its final state.
padded_expert(path, key, pidx) ==
    LET e == expert(path, key, pidx)
    IN [s \in 1..(MaxTrajLen + 1) |-> e[Min2(s, Len(e))]]

(***************************************************************************)
(* Point sampling (robofin's NumpyFrankaSampler, geometry's                *)
(* construct_mixed_point_cloud).  The robot sampler keeps a fixed sample   *)
(* pattern, so its rows are a function of the configuration; the scene     *)
(* points follow a fixed allocation rule over the obstacles, so they are a *)
(* function of the obstacles and the number of points asked for.           *)
(***************************************************************************)
Fill(n, v) == [i \in 1..n |-> v]

\* franka_sampler.sample(cfg, prismatic_joint)[:, :3]
sample(cfg, n) == [k \in 1..n |-> [grp |-> "robot", at |-> cfg, k |-> k]]

\* franka_arm_link_fk(target, prismatic_joint, eye(4))[right_gripper]
franka_arm_link_fk(target) == [fk |-> target]

\* franka_sampler.sample_end_effector(target_pose, prismatic_joint)[..., :3]
sample_end_effector(pose, n) ==
    [k \in 1..n |-> [grp |-> "target", at |-> pose, k |-> k]]

\* construct_mixed_point_cloud(obstacles, n)[..., :3]
construct_mixed_point_cloud(obstacles, n) ==
    [k \in 1..n |-> [grp |-> "scene", at |-> obstacles, k |-> k]]

(***************************************************************************)
(* Base: construction, lengths and the shared example assembly.            *)
(***************************************************************************)
NoDataset == [variant |-> "none"]

NoCall == [op |-> "none"]

\* No DataModule has been created.
NoModule == [created |-> FALSE]

\* No loader worker has been started.
NoWorkers == <<>>

\* No loader worker has been started: the open-file table is empty.
NoHandles == <<>>

\* A constructor that opens the archive whether or not the file exists.
BaseCountsAlwaysOpen(file_exists, path, key) ==
    IF file_exists
    THEN [status |-> "ok", state_count |-> GroupLen(path, key),
          problem_count |-> ArchiveLen(path),
          opened |-> <<[path |-> path, mode |-> "default"]>>]
    ELSE [status |-> "OSError", state_count |-> 0, problem_count |-> 0,
          opened |-> <<>>]

\* A constructor that stores the two counts in each other's place.
BaseCountsSwapped(file_exists, path, key) ==
    IF ~file_exists
    THEN [status |-> "ok", state_count |-> 0, problem_count |-> 0,
          opened |-> <<>>]
    ELSE [status |-> "ok", state_count |-> ArchiveLen(path),
          problem_count |-> GroupLen(path, key),
          opened |-> <<[path |-> path, mode |-> "default"]>>]

\* Base.__init__: the counts, read from the archive only when the file exists.
BaseCounts(file_exists, path, key) ==
    IF ~file_exists
    THEN [status |-> "ok", state_count |-> 0, problem_count |-> 0,
          opened |-> <<>>]
    ELSE [status |-> "ok", state_count |-> GroupLen(path, key),
          problem_count |-> ArchiveLen(path),
          opened |-> <<[path |-> path, mode |-> "default"]>>]

\* Base.__init__: the fields of the constructed object.
BaseFields(variant, path, dataset_type, key, nr, no, nt, scale, counts) ==
    [variant |-> variant,
     path |-> path,
     trajectory_key |-> key,
     train |-> (dataset_type = "TRAIN"),
     state_count |-> counts.state_count,
     problem_count |-> counts.problem_count,
     num_robot_points |-> nr,
     num_obstacle_points |-> no,
     num_target_points |-> nt,
     random_scale |-> scale]

\* StateDataset.__len__
StateLen(d) == d.state_count

\* TrajectoryDataset.__len__
TrajLen(d) == d.problem_count

\* StateDataset.__init__: the fields of Base plus action_chunk_length.
StateDatasetFields(path, dataset_type, key, nr, no, nt, scale, chunk, counts) ==
    LET b == BaseFields("state", path, dataset_type, key, nr, no, nt, scale, counts)
    IN [variant |-> b.variant, path |-> b.path,
        trajectory_key |-> b.trajectory_key, train |-> b.train,
        state_count |-> b.state_count,
        problem_count |-> b.problem_count,
        num_robot_points |-> b.num_robot_points,
        num_obstacle_points |-> b.num_obstacle_points,
        num_target_points |-> b.num_target_points,
        random_scale |-> b.random_scale,
        action_chunk_length |-> chunk]

\* TrajectoryDataset.__init__: the fields of Base.
TrajectoryDatasetFields(path, dataset_type, key, nr, no, nt, scale, counts) ==
    BaseFields("trajectory", path, dataset_type, key, nr, no, nt, scale, counts)

\* f"Invalid dataset type: {dataset_type}"
InvalidMessage(dataset_type) ==
    [text |-> "Invalid dataset type: ", names |-> dataset_type]

\* A load that resolves every identifier, the unknown ones to the training
\* archive.
LoadFromDirectoryLenient(variant, fs, dataset_type, key, nr, no, nt, scale, chunk) ==
    LET path == IF dataset_type \in Recognized THEN DataPath(dataset_type)
                ELSE "train/train.hdf5"
        c == BaseCounts(path \in fs, path, key)
    IN [status |-> c.status, path |-> path, opened |-> c.opened,
        dataset |->
            IF variant = "state"
            THEN StateDatasetFields(path, dataset_type, key, nr, no, nt, scale,
                                    chunk, c)
            ELSE TrajectoryDatasetFields(path, dataset_type, key, nr, no, nt,
                                         scale, c)]

\* cls.load_from_directory(directory, ..., dataset_type, ...) on the file
\* system fs: an unrecognized identifier raises before anything is built;
\* otherwise cls(data_path, dataset_type, ...) is constructed, dataset_type
\* being passed on as it was given.
LoadFromDirectory(variant, fs, dataset_type, key, nr, no, nt, scale, chunk) ==
    IF dataset_type \notin Recognized
    THEN [status |-> "Exception", message |-> InvalidMessage(dataset_type),
          dataset |-> NoDataset, opened |-> <<>>]
    ELSE LET path == DataPath(dataset_type)
             c == BaseCounts(path \in fs, path, key)
         IN [status |-> c.status, path |-> path, opened |-> c.opened,
             dataset |->
                 IF c.status # "ok" THEN NoDataset
                 ELSE IF variant = "state"
                 THEN StateDatasetFields(path, dataset_type, key, nr, no, nt,
                                         scale, chunk, c)
                 ELSE TrajectoryDatasetFields(path, dataset_type, key, nr, no,
                                              nt, scale, c)]

\* get_inputs with the target points put before the scene points.
get_inputs_target_first(d, prob, flobs) ==
    LET target_pose == franka_arm_link_fk(prob.target)
        target_points == sample_end_effector(target_pose, d.num_target_points)
        scene_points ==
            construct_mixed_point_cloud(prob.obstacles, d.num_obstacle_points)
    IN [target_pose |-> target_pose,
        obstacles |-> flobs,
        point_cloud |-> target_points \o scene_points,
        point_cloud_labels |-> Fill(Len(scene_points), 1) \o Fill(Len(target_points), 2)]

\* Base.get_inputs: the target pose, the obstacle arrays and the point cloud
\* scene points ++ target points with the labels 1.. then 2..
get_inputs(d, prob, flobs) ==
    LET target_pose == franka_arm_link_fk(prob.target)
        target_points == sample_end_effector(target_pose, d.num_target_points)
        scene_points ==
            construct_mixed_point_cloud(prob.obstacles, d.num_obstacle_points)
    IN [target_pose |-> target_pose,
        obstacles |-> flobs,
        point_cloud |-> scene_points \o target_points,
        point_cloud_labels |-> Fill(Len(scene_points), 1) \o Fill(Len(target_points), 2)]

(***************************************************************************)
(* The noise of a training access and what it feeds.                       *)
(***************************************************************************)
\* Noise added whatever random_scale is.
RandomizedUnscaled(scale, noise, config_tensor) ==
    [j \in Joints |-> noise[j] + config_tensor[j]]

\* random_scale * torch.randn(shape) + config_tensor
Randomized(scale, noise, config_tensor) ==
    [j \in Joints |-> scale * noise[j] + config_tensor[j]]

\* Robot points always sampled at the archive's configuration.
RobotInputExact(train, randomized, config_tensor) == config_tensor

\* The configuration the robot points are sampled at.
RobotInput(train, randomized, config_tensor) ==
    IF train THEN randomized ELSE config_tensor

\* The configuration that is clamped and normalized into item["configuration"].
ConfigurationInput(train, randomized, config_tensor) ==
    IF train THEN randomized ELSE config_tensor

\* The part shared by both __getitem__: configuration, robot points
\* prepended to the point cloud, and label 0 prepended for each of them.
WithRobot(d, item, config_tensor, noise) ==
    LET randomized == Randomized(d.random_scale, noise, config_tensor)
        robot_points ==
            sample(RobotInput(d.train, randomized, config_tensor), d.num_robot_points)
    IN [target_pose |-> item.target_pose,
        obstacles |-> item.obstacles,
        configuration |->
            clamp_and_normalize(ConfigurationInput(d.train, randomized, config_tensor)),
        point_cloud |-> robot_points \o item.point_cloud,
        point_cloud_labels |-> Fill(Len(robot_points), 0) \o item.point_cloud_labels]

(***************************************************************************)
(* StateDataset.__getitem__ and TrajectoryDataset.__getitem__.             *)
(***************************************************************************)
NoItem == [none |-> TRUE]

\* An access that checks the index before it opens the archive.
GetItemStatusIndexFirst(file_ok, index_ok) ==
    IF ~index_ok THEN "IndexError" ELSE IF ~file_ok THEN "OSError" ELSE "ok"

\* How an access ends: the archive is opened first (a missing file fails in
\* the adapter's open), then the index is looked up (IndexError when out of
\* range); either failure propagates unmodified.
GetItemStatus(file_ok, index_ok) ==
    IF ~file_ok THEN "OSError" ELSE IF ~index_ok THEN "IndexError" ELSE "ok"

\* An index forced into the valid range before it is looked up.
IndexPassedClamped(idx, count) == Max2(0, Min2(idx, count - 1))

\* The index handed to the archive: the caller's index, as given.
IndexPassed(idx, count) == idx

\* A window one configuration too long.
LookaheadOneMore(action_chunk_length) == action_chunk_length + 2

\* lookahead=self.action_chunk_length + 1
Lookahead(action_chunk_length) == action_chunk_length + 1

\* The whole window taken as supervision.
SupervisionRowsAll(configs) == configs

\* supervision = configs[1:]
SupervisionRows(configs) == Tail(configs)

\* The body of StateDataset.__getitem__ once the archive has been read:
\* prob, flobs and configs are what f.problem, f.flattened_obstacles and
\* f[key].state_range returned.
StateItemOf(d, idx, noise, prob, flobs, configs) ==
    LET item == get_inputs(d, prob, flobs)
        config == configs[1]
        supervision == SupervisionRows(configs)
        b == WithRobot(d, item, config, noise)
    IN [target_pose |-> b.target_pose,
        obstacles |-> b.obstacles,
        configuration |-> b.configuration,
        point_cloud |-> b.point_cloud,
        point_cloud_labels |-> b.point_cloud_labels,
        idx |-> idx,
        supervision |-> clamp_and_normalize_rows(supervision)]

\* StateDataset.__getitem__ on an open archive and an index in range.
StateItem(d, idx, noise) ==
    LET pidx == lookup_pidx(d.path, d.trajectory_key, idx)
    IN StateItemOf(d, idx, noise,
                   problem(d.path, d.trajectory_key, pidx),
                   flattened_obstacles(d.path, d.trajectory_key, pidx),
                   state_range(d.path, d.trajectory_key, idx,
                               Lookahead(d.action_chunk_length)))

\* The body of TrajectoryDataset.__getitem__ once the archive has been
\* read: prob, flobs, config and padded are what f.problem,
\* f.flattened_obstacles, f.problem(pidx).q0 and f[key].padded_expert
\* returned.
TrajItemOf(d, pidx, noise, prob, flobs, config, padded) ==
    LET item == get_inputs(d, prob, flobs)
        b == WithRobot(d, item, config, noise)
    IN [target_pose |-> b.target_pose,
        obstacles |-> b.obstacles,
        configuration |-> b.configuration,
        point_cloud |-> b.point_cloud,
        point_cloud_labels |-> b.point_cloud_labels,
        expert |-> padded,
        pidx |-> pidx]

\* TrajectoryDataset.__getitem__ on an open archive and an index in range.
TrajItem(d, pidx, noise) ==
    TrajItemOf(d, pidx, noise,
               problem(d.path, d.trajectory_key, pidx),
               flattened_obstacles(d.path, d.trajectory_key, pidx),
               problem(d.path, d.trajectory_key, pidx).q0,
               padded_expert(d.path, d.trajectory_key, pidx))

(***************************************************************************)
(* Inputs.                                                                 *)
(***************************************************************************)
ZeroNoise == [j \in Joints |-> 0]

\* The outcomes of torch.randn the model draws from: no displacement, every
\* joint pushed up by OverPct percent of its range, every joint pulled down.
NoiseSet ==
    {ZeroNoise,
     [j \in Joints |-> (JointRange(j) * OverPct) \div 100],
     [j \in Joints |-> -200]}

Scales == {0, 1}

\* <<num_robot_points, num_obstacle_points, num_target_points>>
PointTriples == {<<MaxPoints, 1, 1>>, <<1, MaxPoints, MaxPoints + 1>>}

Chunks == 1..MaxChunk

Indices == -1..(2 * MaxTrajLen - 1)

\* The identifiers handed to load_from_directory: the recognized ones and
\* three it does not list.
Identifiers == Recognized \cup {"val_state", "dagger", "validation"}

\* The file systems considered: every archive present, only the training
\* archive, all but the training archive.
FsScenarios == {Paths, {"train/train.hdf5"}, Paths \ {"train/train.hdf5"}}

(***************************************************************************)
(* Actions.                                                                *)
(***************************************************************************)
Init ==
    /\ exists \in FsScenarios
    /\ ds = NoDataset
    /\ last = NoCall
    /\ opened = <<>>
    /\ remembered = NoCall
    /\ dm = NoModule
    /\ workers = NoWorkers
    /\ handles = NoHandles

\* StateDataset(data_path, dataset_type, ...)
ConstructState(path, dataset_type, key, nr, no, nt, scale, chunk) ==
    LET c == BaseCounts(path \in exists, path, key)
    IN /\ ds' = IF c.status = "ok"
                THEN StateDatasetFields(path, dataset_type, key, nr, no, nt,
                                        scale, chunk, c)
                ELSE NoDataset
       /\ last' = [op |-> "init", path |-> path, status |-> c.status]
       /\ opened' = c.opened
       /\ UNCHANGED <<exists, remembered, dm, workers, handles>>

\* TrajectoryDataset(data_path, dataset_type, ...)
ConstructTraj(path, dataset_type, key, nr, no, nt, scale) ==
    LET c == BaseCounts(path \in exists, path, key)
    IN /\ ds' = IF c.status = "ok"
                THEN TrajectoryDatasetFields(path, dataset_type, key, nr, no, nt,
                                             scale, c)
                ELSE NoDataset
       /\ last' = [op |-> "init", path |-> path, status |-> c.status]
       /\ opened' = c.opened
       /\ UNCHANGED <<exists, remembered, dm, workers, handles>>

\* What a load_from_directory call leaves behind: the dataset (none when it
\* raised), the handles it opened, and its outcome with the identifier.
Loaded(r, dataset_type) ==
    /\ ds' = r.dataset
    /\ last' = IF r.status = "Exception"
               THEN [op |-> "load", dataset_type |-> dataset_type,
                     status |-> r.status, message |-> r.message]
               ELSE [op |-> "init", path |-> r.path, status |-> r.status,
                     loaded |-> dataset_type]
    /\ opened' = r.opened
    /\ UNCHANGED <<exists, remembered, dm, workers, handles>>

\* StateDataset.load_from_directory(directory, ..., dataset_type, ...)
LoadState(dataset_type, key, nr, no, nt, scale, chunk) ==
    Loaded(LoadFromDirectory("state", exists, dataset_type, key, nr, no, nt,
                             scale, chunk), dataset_type)

\* TrajectoryDataset.load_from_directory(directory, ..., dataset_type, ...)
LoadTraj(dataset_type, key, nr, no, nt, scale) ==
    Loaded(LoadFromDirectory("trajectory", exists, dataset_type, key, nr, no, nt,
                             scale, 1), dataset_type)

\* len(dataset)
LenCall ==
    /\ ds.variant # "none"
    /\ last' = [op |-> "len",
                value |-> IF ds.variant = "state" THEN StateLen(ds) ELSE TrajLen(ds)]
    /\ opened' = <<>>
    /\ UNCHANGED <<exists, ds, remembered, dm, workers, handles>>

\* dataset[idx] on a StateDataset; `noise` is what torch.randn returns (drawn
\* only by a train dataset).  An access that fails draws nothing: it is
\* recorded with the zero noise.
StateGetItem(idx, noise) ==
    /\ ds.variant = "state"
    /\ ds.train \/ noise = ZeroNoise
    /\ LET file_ok == ds.path \in exists
           passed == IndexPassed(idx, ds.state_count)
           status == GetItemStatus(file_ok,
                         StateIndexOk(ds.path, ds.trajectory_key, passed))
       IN /\ status = "ok" \/ noise = ZeroNoise
          /\ last' = [op |-> "getitem", idx |-> idx, noise |-> noise,
                      status |-> status,
                      item |-> IF status = "ok"
                               THEN StateItem(ds, passed, noise)
                               ELSE NoItem]
          /\ opened' = IF file_ok THEN <<[path |-> ds.path, mode |-> "r"]>> ELSE <<>>
    /\ UNCHANGED <<exists, ds, remembered, dm, workers, handles>>

\* dataset[pidx] on a TrajectoryDataset.
TrajGetItem(pidx, noise) ==
    /\ ds.variant = "trajectory"
    /\ ds.train \/ noise = ZeroNoise
    /\ LET file_ok == ds.path \in exists
           passed == IndexPassed(pidx, ds.problem_count)
           status == GetItemStatus(file_ok, ProblemIndexOk(ds.path, passed))
       IN /\ status = "ok" \/ noise = ZeroNoise
          /\ last' = [op |-> "getitem", idx |-> pidx, noise |-> noise,
                      status |-> status,
                      item |-> IF status = "ok"
                               THEN TrajItem(ds, passed, noise)
                               ELSE NoItem]
          /\ opened' = IF file_ok THEN <<[path |-> ds.path, mode |-> "r"]>> ELSE <<>>
    /\ UNCHANGED <<exists, ds, remembered, dm, workers, handles>>

\* One dataset object is followed per behaviour: it is constructed once,
\* directly or through load_from_directory.
Construction ==
    /\ ds = NoDataset
    /\ last = NoCall
    /\ \E key \in Keys, pts \in PointTriples, scale \in Scales :
        \/ \E path \in Paths, chunk \in Chunks, dataset_type \in DatasetTypes :
            ConstructState(path, dataset_type, key, pts[1], pts[2], pts[3],
                           scale, chunk)
        \/ \E path \in Paths, dataset_type \in DatasetTypes :
            ConstructTraj(path, dataset_type, key, pts[1], pts[2], pts[3], scale)
        \/ \E chunk \in Chunks, dataset_type \in Identifiers :
            LoadState(dataset_type, key, pts[1], pts[2], pts[3], scale, chunk)
        \/ \E dataset_type \in Identifiers :
            LoadTraj(dataset_type, key, pts[1], pts[2], pts[3], scale)

Access ==
    \E idx \in Indices, noise \in NoiseSet :
        \/ StateGetItem(idx, noise)
        \/ TrajGetItem(idx, noise)

Next == Construction \/ LenCall \/ Access

Spec == Init /\ [][Next]_vars

(***************************************************************************)
(* Pairs of accesses.  To compare two accesses, an observer keeps the      *)
(* outcome of one successful access that no noise can have reached (on a   *)
(* train=False dataset or one with random_scale=0) together with the       *)
(* dataset that served it.  Datasets of one variant are constructed one    *)
(* after another over the training archive, with any train flag and scale. *)
(***************************************************************************)
Remember ==
    /\ remembered = NoCall
    /\ last.op = "getitem"
    /\ last.status = "ok"
    /\ ~ds.train \/ ds.random_scale = 0
    /\ remembered' = [op |-> "getitem", ds |-> ds, idx |-> last.idx,
                      noise |-> last.noise, item |-> last.item]
    /\ UNCHANGED <<exists, ds, last, opened, dm, workers, handles>>

PairConstruction ==
    \E dataset_type \in {"TRAIN", "VAL"}, scale \in Scales :
        \/ /\ ds.variant \in {"none", "state"}
           /\ ConstructState("train/train.hdf5", dataset_type, "global_solutions",
                             MaxPoints, 1, 1, scale, 1)
        \/ /\ ds.variant \in {"none", "trajectory"}
           /\ ConstructTraj("train/train.hdf5", dataset_type, "global_solutions",
                            MaxPoints, 1, 1, scale)

InitPair ==
    /\ exists = Paths
    /\ ds = NoDataset
    /\ last = NoCall
    /\ opened = <<>>
    /\ remembered = NoCall
    /\ dm = NoModule
    /\ workers = NoWorkers
    /\ handles = NoHandles

NextPair == PairConstruction \/ Access \/ Remember

SpecPair == InitPair /\ [][NextPair]_vars

(***************************************************************************)
(* The codec on its own: clamp_and_normalize applied to configurations     *)
(* whose joints lie below, on, between, on and above their limits.         *)
(***************************************************************************)
Overshoot(j) == (JointRange(j) * OverPct) \div 100

CodecValues(j) ==
    {JointLo(j) - Overshoot(j), JointLo(j), JointLo(j) + JointRange(j) \div 2,
     JointHi(j), JointHi(j) + Overshoot(j)}

InitCodec ==
    /\ exists = Paths
    /\ ds = NoDataset
    /\ opened = <<>>
    /\ remembered = NoCall
    /\ dm = NoModule
    /\ workers = NoWorkers
    /\ handles = NoHandles
    /\ \E x1 \in CodecValues(1), x2 \in CodecValues(2), x3 \in CodecValues(3),
          x4 \in CodecValues(4), x5 \in CodecValues(5), x6 \in CodecValues(6),
          x7 \in CodecValues(7) :
        last = [op |-> "codec_in", x |-> <<x1, x2, x3, x4, x5, x6, x7>>]

\* Base.clamp_and_normalize(configuration_tensor)
ClampAndNormalizeCall ==
    /\ last.op = "codec_in"
    /\ last' = [op |-> "codec_out", x |-> last.x, out |-> clamp_and_normalize(last.x)]
    /\ UNCHANGED <<exists, ds, opened, remembered, dm, workers, handles>>

SpecCodec == InitCodec /\ [][ClampAndNormalizeCall]_vars

(***************************************************************************)
(* DataModule: the datasets setup(stage) creates, the loaders built over   *)
(* them and the checksum report.  A data_* attribute that has not been     *)
(* assigned is NoDataset; reading it raises AttributeError.  `ds` is the   *)
(* dataset read last from an attribute and `remembered` says which one.    *)
(***************************************************************************)
Splits ==
    {"train", "val_state", "val", "mini_train", "val_pretrain", "test", "dagger"}

\* The stages handed to setup; "None" stands for stage=None and "predict" for
\* a stage setup has no branch for.
Stages == {"fit", "test", "None", "dagger", "predict"}

NoneValue == [none |-> TRUE]

\* DataModule.__init__: the hyperparameters are stored, no dataset is made.
\* `setups` is not a field of the object: it keeps the stages setup has
\* been called with, for the properties that speak of the calls made.
DataModuleFields(train_key, val_key, nr, no, nt, chunk, scale) ==
    [created |-> TRUE,
     train_trajectory_key |-> train_key,
     val_trajectory_key |-> val_key,
     train_batch_size |-> "train_batch_size",
     val_batch_size |-> "val_batch_size",
     num_robot_points |-> nr,
     num_obstacle_points |-> no,
     num_target_points |-> nt,
     random_scale |-> scale,
     action_chunk_length |-> chunk,
     data |-> [s \in Splits |-> NoDataset],
     setups |-> {}]

\* A setup whose evaluation datasets are given the configured noise scale.
SplitArgsAllScaled(m, split) ==
    CASE split = "train" ->
            [variant |-> "state", dataset_type |-> "TRAIN",
             key |-> m.train_trajectory_key, scale |-> m.random_scale]
      [] split = "val_state" ->
            [variant |-> "state", dataset_type |-> "VAL_STATE",
             key |-> m.val_trajectory_key, scale |-> m.random_scale]
      [] split = "val" ->
            [variant |-> "trajectory", dataset_type |-> "VAL",
             key |-> m.val_trajectory_key, scale |-> m.random_scale]
      [] split = "mini_train" ->
            [variant |-> "trajectory", dataset_type |-> "MINI_TRAIN",
             key |-> m.val_trajectory_key, scale |-> m.random_scale]
      [] split = "val_pretrain" ->
            [variant |-> "trajectory", dataset_type |-> "VAL_PRETRAIN",
             key |-> m.val_trajectory_key, scale |-> m.random_scale]
      [] split = "test" ->
            [variant |-> "state", dataset_type |-> "TEST",
             key |-> m.train_trajectory_key, scale |-> m.random_scale]
      [] split = "dagger" ->
            [variant |-> "trajectory", dataset_type |-> "TRAIN",
             key |-> m.val_trajectory_key, scale |-> m.random_scale]

\* DataModule.setup: the class, dataset type, trajectory key and random_scale
\* each data_* attribute is loaded with.
SplitArgs(m, split) ==
    CASE split = "train" ->
            [variant |-> "state", dataset_type |-> "TRAIN",
             key |-> m.train_trajectory_key, scale |-> m.random_scale]
      [] split = "val_state" ->
            [variant |-> "state", dataset_type |-> "VAL_STATE",
             key |-> m.val_trajectory_key, scale |-> 0]
      [] split = "val" ->
            [variant |-> "trajectory", dataset_type |-> "VAL",
             key |-> m.val_trajectory_key, scale |-> 0]
      [] split = "mini_train" ->
            [variant |-> "trajectory", dataset_type |-> "MINI_TRAIN",
             key |-> m.val_trajectory_key, scale |-> 0]
      [] split = "val_pretrain" ->
            [variant |-> "trajectory", dataset_type |-> "VAL_PRETRAIN",
             key |-> m.val_trajectory_key, scale |-> 0]
      [] split = "test" ->
            [variant |-> "state", dataset_type |-> "TEST",
             key |-> m.train_trajectory_key, scale |-> m.random_scale]
      [] split = "dagger" ->
            [variant |-> "trajectory", dataset_type |-> "TRAIN",
             key |-> m.val_trajectory_key, scale |-> 0]

\* One assignment of setup: self.data_<split> = <class>.load_from_directory(...)
SetupDataset(m, fs, split) ==
    LET a == SplitArgs(m, split)
    IN LoadFromDirectory(a.variant, fs, a.dataset_type, a.key,
                         m.num_robot_points, m.num_obstacle_points,
                         m.num_target_points, a.scale, m.action_chunk_length)

\* A setup whose dagger branch is also taken for stage=None.
SetupOrderDaggerOnNone(stage) ==
    (IF stage \in {"fit", "None"}
     THEN <<"train", "val_state", "val", "mini_train", "val_pretrain">>
     ELSE <<>>)
    \o (IF stage \in {"test", "None"} THEN <<"test">> ELSE <<>>)
    \o (IF stage \in {"dagger", "None"} THEN <<"dagger">> ELSE <<>>)

\* DataModule.setup: the attributes a stage assigns, in the order of the code.
SetupOrder(stage) ==
    (IF stage \in {"fit", "None"}
     THEN <<"train", "val_state", "val", "mini_train", "val_pretrain">>
     ELSE <<>>)
    \o (IF stage \in {"test", "None"} THEN <<"test">> ELSE <<>>)
    \o (IF stage = "dagger" THEN <<"dagger">> ELSE <<>>)

MinOf(S) == CHOOSE x \in S : \A y \in S : x <= y

RECURSIVE Handles(_, _)
\* The handles opened by the first n of a sequence of constructions.
Handles(built, n) ==
    IF n = 0 THEN <<>> ELSE Handles(built, n - 1) \o built[n].opened

\* setup(stage) on the module m and the file system fs: the assignments run
\* in order and stop at the first constructor that raises.
SetupResult(m, fs, stage) ==
    LET order == SetupOrder(stage)
        built == [i \in 1..Len(order) |-> SetupDataset(m, fs, order[i])]
        bad == {i \in 1..Len(order) : built[i].status # "ok"}
        done == IF bad = {} THEN Len(order) ELSE MinOf(bad) - 1
    IN [status |-> IF bad = {} THEN "ok" ELSE built[MinOf(bad)].status,
        data |-> [s \in Splits |->
                    IF \E i \in 1..done : order[i] = s
                    THEN built[CHOOSE i \in 1..done : order[i] = s].dataset
                    ELSE m.data[s]],
        opened |-> Handles(built, Min2(done + 1, Len(order)))]

\* DataLoader(dataset, batch_size, num_workers=..., pin_memory=True, shuffle=...)
DataLoader(dataset, batch_size, shuffle) ==
    [dataset |-> dataset, batch_size |-> batch_size, shuffle |-> shuffle]

\* f.md5_checksum of an archive file.
Md5(path) == [md5 |-> FileTag(path)]

\* DataModule.md5_checksums: the names and paths it lists.
ChecksumPaths ==
    <<[key |-> "train", path |-> "train/train.hdf5"],
      [key |-> "val", path |-> "val/val.hdf5"],
      [key |-> "mini_train", path |-> "val/mini_train.hdf5"]>>

\* A report that opens every listed file without asking whether it exists:
\* the first absent one makes the adapter's open fail.
Md5ChecksumsUnguarded(fs) ==
    LET absent == {i \in 1..Len(ChecksumPaths) : ChecksumPaths[i].path \notin fs}
        upto == IF absent = {} THEN Len(ChecksumPaths) ELSE MinOf(absent) - 1
    IN [status |-> IF absent = {} THEN "ok" ELSE "OSError",
        checksums |->
            [k \in {ChecksumPaths[i].key : i \in 1..upto} |->
                Md5(ChecksumPaths[CHOOSE i \in 1..upto :
                                      ChecksumPaths[i].key = k].path)],
        opened |->
            [i \in 1..upto |-> [path |-> ChecksumPaths[i].path, mode |-> "default"]]]

\* DataModule.md5_checksums on the file system fs: the report, filled for
\* the listed paths that exist, and the handles opened for it.
Md5Checksums(fs) ==
    LET present == {i \in 1..Len(ChecksumPaths) : ChecksumPaths[i].path \in fs}
        keys == {ChecksumPaths[i].key : i \in present}
    IN [status |-> "ok",
        checksums |->
            [k \in keys |->
                Md5(ChecksumPaths[CHOOSE i \in present :
                                      ChecksumPaths[i].key = k].path)],
        opened |->
            Handles([i \in 1..Len(ChecksumPaths) |->
                        [opened |-> IF i \in present
                                    THEN <<[path |-> ChecksumPaths[i].path,
                                            mode |-> "default"]>>
                                    ELSE <<>>]],
                    Len(ChecksumPaths))]

\* dm.setup(stage)
Setup(stage) ==
    /\ dm.created
    /\ LET r == SetupResult(dm, exists, stage)
       IN /\ dm' = [dm EXCEPT !.data = r.data, !.setups = @ \cup {stage}]
          /\ last' = [op |-> "setup", stage |-> stage, status |-> r.status]
          /\ opened' = r.opened
    /\ UNCHANGED <<exists, ds, remembered, workers, handles>>

\* dm.data_<split>: the dataset becomes the one under use.
UseSplit(split) ==
    /\ dm.created
    /\ IF dm.data[split] = NoDataset
       THEN /\ last' = [op |-> "attr", split |-> split, status |-> "AttributeError"]
            /\ UNCHANGED <<ds, remembered>>
       ELSE /\ last' = [op |-> "attr", split |-> split, status |-> "ok"]
            /\ ds' = dm.data[split]
            /\ remembered' = [op |-> "attr", split |-> split]
    /\ opened' = <<>>
    /\ UNCHANGED <<exists, dm, workers, handles>>

\* dm.train_dataloader()
TrainDataloader ==
    /\ dm.created
    /\ last' = IF dm.data["train"] = NoDataset
               THEN [op |-> "train_dataloader", status |-> "AttributeError",
                     value |-> NoneValue]
               ELSE [op |-> "train_dataloader", status |-> "ok",
                     value |-> DataLoader(dm.data["train"], dm.train_batch_size,
                                          TRUE)]
    /\ opened' = <<>>
    /\ UNCHANGED <<exists, ds, remembered, dm, workers, handles>>

\* dm.dagger_dataloader()
DaggerDataloader ==
    /\ dm.created
    /\ last' = IF dm.data["dagger"] = NoDataset
               THEN [op |-> "dagger_dataloader", status |-> "AttributeError",
                     value |-> NoneValue]
               ELSE [op |-> "dagger_dataloader", status |-> "ok",
                     value |-> DataLoader(dm.data["dagger"], dm.val_batch_size,
                                          TRUE)]
    /\ opened' = <<>>
    /\ UNCHANGED <<exists, ds, remembered, dm, workers, handles>>

\* dm.val_dataloader(): the list of loaders, indexed by dataset type.
ValDataloader ==
    /\ dm.created
    /\ last' =
        IF \E s \in {"val_state", "val", "mini_train", "val_pretrain"} :
                dm.data[s] = NoDataset
        THEN [op |-> "val_dataloader", status |-> "AttributeError",
              value |-> NoneValue]
        ELSE [op |-> "val_dataloader", status |-> "ok",
              value |->
                [t \in {"VAL_STATE", "VAL", "MINI_TRAIN", "VAL_PRETRAIN"} |->
                    CASE t = "VAL_STATE" ->
                            DataLoader(dm.data["val_state"], dm.train_batch_size,
                                       FALSE)
                      [] t = "VAL" ->
                            DataLoader(dm.data["val"], dm.val_batch_size, FALSE)
                      [] t = "MINI_TRAIN" ->
                            DataLoader(dm.data["mini_train"], dm.val_batch_size,
                                       FALSE)
                      [] t = "VAL_PRETRAIN" ->
                            DataLoader(dm.data["val_pretrain"], dm.val_batch_size,
                                       FALSE)]]
    /\ opened' = <<>>
    /\ UNCHANGED <<exists, ds, remembered, dm, workers, handles>>

\* dm.test_dataloader(): the body is `assert NotImplementedError(...)`, the
\* assertion of an exception object, which is truthy: nothing is raised and
\* the method returns None.
TestDataloaderValue(m) == NoneValue

\* dm.test_dataloader()
TestDataloader ==
    /\ dm.created
    /\ last' = [op |-> "test_dataloader", status |-> "ok",
                value |-> TestDataloaderValue(dm)]
    /\ opened' = <<>>
    /\ UNCHANGED <<exists, ds, remembered, dm, workers, handles>>

\* dm.md5_checksums()
Md5ChecksumsCall ==
    /\ dm.created
    /\ LET r == Md5Checksums(exists)
       IN /\ last' = [op |-> "md5_checksums", status |-> r.status,
                      value |-> r.checksums]
          /\ opened' = r.opened
    /\ UNCHANGED <<exists, ds, remembered, dm, workers, handles>>

\* The file systems a DataModule is run on.
FsScenariosDM ==
    {Paths, {}, {"train/train.hdf5", "val/mini_train.hdf5"},
     {"val/val.hdf5", "val/val_pretrain.hdf5", "test/test.hdf5"}}

InitDM ==
    /\ exists \in FsScenariosDM
    /\ ds = NoDataset
    /\ last = NoCall
    /\ opened = <<>>
    /\ remembered = NoCall
    /\ workers = NoWorkers
    /\ handles = NoHandles
    /\ \E scale \in Scales :
        dm = DataModuleFields("global_solutions", "hybrid_solutions",
                              MaxPoints, 1, 1, MaxChunk, scale)

Dataloaders ==
    TrainDataloader \/ DaggerDataloader \/ ValDataloader \/ TestDataloader

NextDM ==
    \/ \E stage \in Stages : Setup(stage)
    \/ \E split \in Splits : UseSplit(split)
    \/ Dataloaders
    \/ Md5ChecksumsCall
    \/ Access

SpecDM == InitDM /\ [][NextDM]_vars

(***************************************************************************)
(* Loader workers.  A DataLoader with num_workers > 0 runs the dataset's   *)
(* operations in several workers, each on its own copy of the dataset      *)
(* object (which holds the path, never a handle).  An operation is split   *)
(* into its steps: the `with MPNDataset(...) as f:` is entered, the body   *)
(* reads through f one archive call after another, the block is left;      *)
(* steps of different workers interleave freely.  What the workers share   *)
(* is the file system and the table of open handles: a read goes through   *)
(* the entry of the table its handle names, and fails when that entry has  *)
(* been closed.                                                            *)
(***************************************************************************)
Workers == {"w1", "w2"}

WorkerOps == {"getitem", "unpadded_expert", "md5_checksum"}

\* The indices the workers ask for: one below the range and the first two.
WorkerIndices == {-1, 0, 1}

ClosedHandle == [open |-> FALSE, path |-> "none", mode |-> "none"]

IdleWorker ==
    [pc |-> "idle", op |-> "none", idx |-> 0, noise |-> ZeroNoise,
     got |-> <<>>, status |-> "none", value |-> NoItem]

\* One handle, kept on the dataset object, that every worker reads through.
HandleOfDataset(w) == "w1"

\* The handle an operation reads through: `f`, a local of the call that
\* worker w is running, bound by the call's own with statement.
HandleOf(w) == w

\* The mode argument each operation gives MPNDataset: "r" in __getitem__ and
\* unpadded_expert, none in the md5_checksum property.
OpenMode(op) ==
    IF op \in {"getitem", "unpadded_expert"} THEN "r" ELSE "default"

\* The mode the adapter opens the file in when none is given.
AdapterMode(mode) == IF mode = "default" THEN "r" ELSE mode

ReadOnly(mode) == AdapterMode(mode) = "r"

\* Leaving the with block closes the handle.
HandleOnExit(handle) == ClosedHandle

\* The archive calls in the body of an operation's block.
ReadsOf(op) == IF op = "getitem" THEN 2 ELSE 1

\* Whether the index of the operation is in range of the archive at path.
WorkerIndexOk(d, path, op, idx) ==
    IF op = "getitem" /\ d.variant = "state"
    THEN StateIndexOk(path, d.trajectory_key, idx)
    ELSE ProblemIndexOk(path, idx)

\* What archive call number n of the operation returns, read from the
\* file the handle is open on.  In StateDataset.__getitem__: lookup_pidx,
\* problem and flattened_obstacles, then state_range; in
\* TrajectoryDataset.__getitem__: problem and flattened_obstacles, then
\* problem(pidx).q0 and padded_expert.
ReadThrough(handle, d, op, idx, n) ==
    LET path == handle.path
        key == d.trajectory_key
    IN CASE op = "getitem" /\ d.variant = "state" /\ n = 1 ->
              LET pidx == lookup_pidx(path, key, idx)
              IN [prob |-> problem(path, key, pidx),
                  flobs |-> flattened_obstacles(path, key, pidx)]
         [] op = "getitem" /\ d.variant = "state" /\ n = 2 ->
              [configs |-> state_range(path, key, idx,
                                       Lookahead(d.action_chunk_length))]
         [] op = "getitem" /\ d.variant = "trajectory" /\ n = 1 ->
              [prob |-> problem(path, key, idx),
               flobs |-> flattened_obstacles(path, key, idx)]
         [] op = "getitem" /\ d.variant = "trajectory" /\ n = 2 ->
              [config |-> problem(path, key, idx).q0,
               padded |-> padded_expert(path, key, idx)]
         [] op = "unpadded_expert" -> [expert |-> expert(path, key, idx)]
         [] op = "md5_checksum" -> Md5(path)

\* What the operation returns from the values its archive calls gave.
WorkerResult(d, op, idx, noise, got) ==
    CASE op = "getitem" /\ d.variant = "state" ->
            StateItemOf(d, idx, noise, got[1].prob, got[1].flobs, got[2].configs)
      [] op = "getitem" /\ d.variant = "trajectory" ->
            TrajItemOf(d, idx, noise, got[1].prob, got[1].flobs,
                       got[2].config, got[2].padded)
      [] op = "unpadded_expert" -> got[1].expert
      [] op = "md5_checksum" -> got[1]

\* Worker w starts an operation and enters its with block: the archive is
\* opened, which fails when the file is missing.
WorkerEnter(w, op, idx) ==
    /\ ds # NoDataset
    /\ workers[w].pc \in {"idle", "done"}
    /\ op = "unpadded_expert" => ds.variant = "trajectory"
    /\ op = "md5_checksum" => idx = 0
    /\ IF ds.path \in exists
       THEN /\ handles' = [handles EXCEPT ![HandleOf(w)] =
                            [open |-> TRUE, path |-> ds.path, mode |-> OpenMode(op)]]
            /\ workers' = [workers EXCEPT ![w] =
                            [pc |-> "inside", op |-> op, idx |-> idx,
                             noise |-> ZeroNoise, got |-> <<>>,
                             status |-> "none", value |-> NoItem]]
       ELSE /\ handles' = handles
            /\ workers' = [workers EXCEPT ![w] =
                            [pc |-> "done", op |-> op, idx |-> idx,
                             noise |-> ZeroNoise, got |-> <<>>,
                             status |-> "OSError", value |-> NoItem]]
    /\ UNCHANGED <<exists, ds, last, opened, remembered, dm>>

\* Worker w makes the next archive call of its block through its handle.
\* A call through a closed handle fails, and so does the first call when
\* the index is out of range.
WorkerRead(w) ==
    /\ workers[w].pc = "inside"
    /\ workers[w].status = "none"
    /\ Len(workers[w].got) < ReadsOf(workers[w].op)
    /\ LET me == workers[w]
           handle == handles[HandleOf(w)]
           passed == IndexPassed(me.idx, ds.state_count)
           n == Len(me.got) + 1
       IN workers' =
            [workers EXCEPT ![w] =
                IF ~handle.open
                THEN [me EXCEPT !.status = "ValueError"]
                ELSE IF /\ n = 1
                        /\ me.op # "md5_checksum"
                        /\ ~WorkerIndexOk(ds, handle.path, me.op, passed)
                THEN [me EXCEPT !.status = "IndexError"]
                ELSE [me EXCEPT !.got =
                        Append(@, ReadThrough(handle, ds, me.op, passed, n))]]
    /\ UNCHANGED <<exists, ds, last, opened, remembered, dm, handles>>

\* Worker w finishes the body (in __getitem__ of a train dataset torch.randn
\* gives `noise`) and leaves its block, normally or with the exception of
\* an archive call; the handle is closed either way.
WorkerExit(w, noise) ==
    /\ workers[w].pc = "inside"
    /\ LET me == workers[w]
           completed == me.status = "none"
       IN /\ completed => Len(me.got) = ReadsOf(me.op)
          /\ (completed /\ me.op = "getitem" /\ ds.train) \/ noise = ZeroNoise
          /\ workers' =
                [workers EXCEPT ![w] =
                    [me EXCEPT !.pc = "done",
                               !.noise = noise,
                               !.status = IF completed THEN "ok" ELSE @,
                               !.value = IF completed
                                         THEN WorkerResult(ds, me.op, me.idx,
                                                           noise, me.got)
                                         ELSE NoItem]]
    /\ handles' = [handles EXCEPT ![HandleOf(w)] = HandleOnExit(@)]
    /\ UNCHANGED <<exists, ds, last, opened, remembered, dm>>

\* The dataset the workers are given: of either variant, train or not, over
\* the training archive.
WorkersConstruction ==
    /\ ds = NoDataset
    /\ \E dataset_type \in {"TRAIN", "VAL"} :
        \/ ConstructState("train/train.hdf5", dataset_type, "global_solutions",
                          MaxPoints, 1, 1, 1, MaxChunk)
        \/ ConstructTraj("train/train.hdf5", dataset_type, "global_solutions",
                         MaxPoints, 1, 1, 1)

InitWorkers ==
    /\ exists \in {Paths, Paths \ {"train/train.hdf5"}}
    /\ ds = NoDataset
    /\ last = NoCall
    /\ opened = <<>>
    /\ remembered = NoCall
    /\ dm = NoModule
    /\ workers = [w \in Workers |-> IdleWorker]
    /\ handles = [w \in Workers |-> ClosedHandle]

NextWorkers ==
    \/ WorkersConstruction
    \/ \E w \in Workers, op \in WorkerOps, idx \in WorkerIndices : WorkerEnter(w, op, idx)
    \/ \E w \in Workers : WorkerRead(w)
    \/ \E w \in Workers, noise \in NoiseSet : WorkerExit(w, noise)

SpecWorkers == InitWorkers /\ [][NextWorkers]_vars

(***************************************************************************)
(* Properties.                                                             *)
(***************************************************************************)
GotItem == last.op = "getitem" /\ last.status = "ok"

GroupOfLabel(l) == CASE l = 0 -> "robot" [] l = 1 -> "scene" [] l = 2 -> "target"

\* C1: every item of a StateDataset or TrajectoryDataset has a point cloud
\* of num_robot_points + num_obstacle_points + num_target_points rows, its
\* labels are num_robot_points 0s, then num_obstacle_points 1s, then
\* num_target_points 2s, and row i of the labels tells the group row i of
\* the point cloud was sampled for.
C1_PointCloudShape ==
    GotItem =>
        LET pc == last.item.point_cloud
            lb == last.item.point_cloud_labels
        IN /\ Len(pc) = ds.num_robot_points + ds.num_obstacle_points
                          + ds.num_target_points
           /\ lb = Fill(ds.num_robot_points, 0) \o Fill(ds.num_obstacle_points, 1)
                     \o Fill(ds.num_target_points, 2)
           /\ \A i \in 1..Len(pc) : pc[i].grp = GroupOfLabel(lb[i])

C1_Witness ==
    /\ GotItem
    /\ ds.variant = "trajectory"
    /\ ds.num_robot_points = 1
    /\ ds.num_obstacle_points = MaxPoints
    /\ ds.num_target_points = MaxPoints + 1

\* The archive's configuration an access of index i starts from.
CurrentConfig(d, i) ==
    IF d.variant = "state"
    THEN StateOf(d.path, d.trajectory_key, i)
    ELSE StateAt(d.path, d.trajectory_key, i + 1, 1)

RobotRows(d, item) == SubSeq(item.point_cloud, 1, d.num_robot_points)

\* C2: a train StateDataset adds the noise to the current configuration
\* only: the configuration tensor is the clamped and normalized noised
\* value, every robot point is sampled at that same noised value, and the
\* supervision rows are the archive's configurations that follow the index,
\* clamped and normalized without noise.
C2_NoiseOnCurrentOnly ==
    (GotItem /\ ds.variant = "state" /\ ds.train) =>
        LET c == CurrentConfig(ds, last.idx)
            v == [j \in Joints |-> ds.random_scale * last.noise[j] + c[j]]
            sup == last.item.supervision
        IN /\ last.item.configuration = normalize_franka_joints(Clamp(v))
           /\ \A i \in 1..ds.num_robot_points : last.item.point_cloud[i].at = v
           /\ \A i \in 1..Len(sup) :
                sup[i] = normalize_franka_joints(
                             Clamp(StateOf(ds.path, ds.trajectory_key, last.idx + i)))

C2_Witness ==
    /\ GotItem
    /\ ds.variant = "state"
    /\ ds.train
    /\ ds.random_scale = 1
    /\ last.noise # ZeroNoise
    /\ Len(last.item.supervision) = MaxChunk

\* Two datasets that differ at most in the train flag and the noise scale.
SameSource(a, b) ==
    /\ a.variant = b.variant
    /\ a.path = b.path
    /\ a.trajectory_key = b.trajectory_key
    /\ a.num_robot_points = b.num_robot_points
    /\ a.num_obstacle_points = b.num_obstacle_points
    /\ a.num_target_points = b.num_target_points

\* The kept access and the last one address the same index.
PairOfAccesses ==
    /\ remembered.op = "getitem"
    /\ GotItem
    /\ remembered.idx = last.idx

C4_ClampedIntoUnitRange ==
    (last.op = "codec_out") =>
        \A j \in Joints :
            LET num == last.out[j][1]
                den == last.out[j][2]
            IN /\ den > 0
               /\ -den <= num
               /\ num <= den
               /\ (last.x[j] >= JointHi(j)) => num = den
               /\ (last.x[j] <= JointLo(j)) => num = -den

C4_Witness ==
    /\ last.op = "codec_out"
    /\ last.x[1] = JointHi(1) + Overshoot(1)
    /\ last.x[4] = JointLo(4) - Overshoot(4)
    /\ last.out[1] = <<JointRange(1), JointRange(1)>>
    /\ last.out[4] = <<-JointRange(4), JointRange(4)>>

\* C5: over an existing archive len(StateDataset) is the number of states of
\* all trajectories of the dataset's collection and len(TrajectoryDataset)
\* is the number of trajectories of that collection.
C5_Lengths ==
    (last.op = "len" /\ ds.path \in exists) =>
        LET lens == TrajLens(ds.path, ds.trajectory_key)
        IN last.value = IF ds.variant = "state"
                        THEN SumLens(lens, Len(lens))
                        ELSE Len(lens)

C5_Witness ==
    /\ last.op = "len"
    /\ ds.variant = "state"
    /\ ds.path \in exists
    /\ Len(TrajLens(ds.path, ds.trajectory_key)) = 2
    /\ last.value = 2 * MaxTrajLen - 1

\* The states that follow global state index i inside its trajectory.
Following(d, i) ==
    EndOf(d.path, d.trajectory_key, lookup_pidx(d.path, d.trajectory_key, i)) - 1 - i

\* C6: an item of a StateDataset with action_chunk_length = K is the current
\* configuration and the supervision rows that follow it in the archive; the
\* supervision has exactly K rows when at least K states follow the index
\* inside its trajectory, and never more than K rows.
C6_ChunkRows ==
    (GotItem /\ ds.variant = "state") =>
        LET sup == last.item.supervision
        IN /\ Len(sup) <= ds.action_chunk_length
           /\ (Following(ds, last.idx) >= ds.action_chunk_length)
                => Len(sup) = ds.action_chunk_length
           /\ ~ds.train =>
                last.item.configuration =
                    normalize_franka_joints(Clamp(CurrentConfig(ds, last.idx)))
           /\ \A i \in 1..Len(sup) :
                sup[i] = normalize_franka_joints(
                             Clamp(StateOf(ds.path, ds.trajectory_key, last.idx + i)))

C6_Witness ==
    /\ GotItem
    /\ ds.variant = "state"
    /\ ds.action_chunk_length = MaxChunk
    /\ Following(ds, last.idx) > MaxChunk - 1
    /\ Len(last.item.supervision) = MaxChunk

\* C7: an access of a StateDataset at an index in range of an existing
\* archive produces an item whose supervision rows all lie in the trajectory
\* of the index: there are no more rows than states that follow the index in
\* its trajectory and row i is the state i steps later in that trajectory;
\* at the last state of a trajectory the supervision has zero rows.
C7_WindowTruncated ==
    (last.op = "getitem" /\ ds.variant = "state" /\ ds.path \in exists
       /\ StateIndexOk(ds.path, ds.trajectory_key, last.idx)) =>
        /\ last.status = "ok"
        /\ LET sup == last.item.supervision
               p == lookup_pidx(ds.path, ds.trajectory_key, last.idx)
               s == last.idx - StartOf(ds.path, ds.trajectory_key, p) + 1
           IN /\ Len(sup) <= Following(ds, last.idx)
              /\ (Following(ds, last.idx) = 0) => sup = <<>>
              /\ \A i \in 1..Len(sup) :
                    /\ s + i <= TrajLens(ds.path, ds.trajectory_key)[p + 1]
                    /\ sup[i] = normalize_franka_joints(
                           Clamp(StateAt(ds.path, ds.trajectory_key, p + 1, s + i)))

C7_Witness ==
    /\ GotItem
    /\ ds.variant = "state"
    /\ Len(TrajLens(ds.path, ds.trajectory_key)) = 2
    /\ last.idx = TrajLens(ds.path, ds.trajectory_key)[1] - 1
    /\ last.item.supervision = <<>>

\* C8: constructing a dataset whose archive file does not exist does not
\* raise and opens no archive; the dataset has state_count = 0 and
\* problem_count = 0, and its length is 0.
C8_MissingFileIsEmpty ==
    /\ (last.op = "init" /\ last.path \notin exists) =>
            /\ last.status = "ok"
            /\ opened = <<>>
            /\ ds.variant \in {"state", "trajectory"}
            /\ ds.state_count = 0
            /\ ds.problem_count = 0
            /\ StateLen(ds) = 0
            /\ TrajLen(ds) = 0
    /\ (last.op = "len" /\ ds.path \notin exists) => last.value = 0

C8_Witness ==
    /\ last.op = "init"
    /\ last.path \notin exists
    /\ ds.variant = "trajectory"
    /\ ds.problem_count = 0

\* C9 as stated: on a dataset whose archive file is absent every index
\* access fails with an out-of-range error.
C9_AbsentFileIndexError ==
    (last.op = "getitem" /\ ds.path \notin exists) => last.status = "IndexError"

\* C9 (amended): on a dataset whose archive file is absent every index
\* access, on either variant, fails and returns no item; the failure is the
\* error of opening the missing archive, raised before any index is looked
\* up, whatever the index.
C9_AbsentFileOpenError ==
    (last.op = "getitem" /\ ds.path \notin exists) =>
        /\ last.status = "OSError"
        /\ last.item = NoItem
        /\ opened = <<>>

C9_Witness ==
    /\ last.op = "getitem"
    /\ ds.path \notin exists
    /\ ds.variant = "trajectory"
    /\ last.idx = 0
    /\ last.status = "OSError"

\* len(dataset)
LenOf(d) == IF d.variant = "state" THEN StateLen(d) ELSE TrajLen(d)

\* C10: over an existing archive, an access with an index outside
\* [0, len(dataset)) fails with an out-of-range error and returns no item,
\* and an access that returns an item returns the item of the index asked
\* for: the index is never clamped or wrapped.
C10_OutOfRangeFails ==
    (last.op = "getitem" /\ ds.path \in exists) =>
        /\ (last.idx < 0 \/ last.idx >= LenOf(ds)) =>
                (last.status = "IndexError" /\ last.item = NoItem)
        /\ (last.status = "ok" /\ ds.variant = "state") => last.item.idx = last.idx
        /\ (last.status = "ok" /\ ds.variant = "trajectory") =>
                last.item.pidx = last.idx

C10_Witness ==
    /\ last.op = "getitem"
    /\ ds.path \in exists
    /\ ds.variant = "state"
    /\ last.idx = LenOf(ds)
    /\ last.status = "IndexError"

\* The last operation returned an item of the dataset read from a data_*
\* attribute of the module.
GotSplitItem == GotItem /\ remembered.op = "attr"

\* C11: of the datasets setup creates, only data_train has noise applied,
\* scaled by the module's random_scale: its configuration and robot points
\* come from the archive's configuration plus random_scale times the noise
\* drawn.  The items of val_state, val, mini_train, val_pretrain, test and
\* dagger take both from the archive's configuration exactly, whatever
\* noise is drawn and whatever random_scale the module was given.
C11_NoiseOnlyOnTrainSplit ==
    GotSplitItem =>
        LET c == CurrentConfig(ds, last.idx)
            v == [j \in Joints |-> dm.random_scale * last.noise[j] + c[j]]
            used == IF remembered.split = "train" THEN v ELSE c
        IN /\ last.item.configuration = normalize_franka_joints(Clamp(used))
           /\ \A i \in 1..ds.num_robot_points : last.item.point_cloud[i].at = used

C11_Witness ==
    /\ GotSplitItem
    /\ remembered.split = "dagger"
    /\ dm.random_scale = 1
    /\ last.noise # ZeroNoise
    /\ ds.train
    /\ Len(RobotRows(ds, last.item)) = MaxPoints

GotChecksums == last.op = "md5_checksums"

\* C12 as stated: md5_checksums never fails, every archive file that exists
\* has its hash in the report under some split name, and every entry of the
\* report is the hash of an existing archive file.
C12_EveryExistingSplitReported ==
    GotChecksums =>
        /\ last.status = "ok"
        /\ \A path \in Paths :
            path \in exists <=> \E k \in DOMAIN last.value : last.value[k] = Md5(path)

\* C12 (amended): md5_checksums never fails and reports exactly the splits
\* train, val and mini_train whose archive file exists, each with the hash
\* of its file; the val_pretrain and test archives are not reported even
\* when their files exist.
C12_ListedSplitsReported ==
    GotChecksums =>
        /\ last.status = "ok"
        /\ DOMAIN last.value =
            {k \in {"train", "val", "mini_train"} : DataPath(k) \in exists}
        /\ \A k \in DOMAIN last.value : last.value[k] = Md5(DataPath(k))

C12_Witness ==
    /\ GotChecksums
    /\ "train/train.hdf5" \notin exists
    /\ {"val/val.hdf5", "val/val_pretrain.hdf5", "test/test.hdf5"} \subseteq exists
    /\ DOMAIN last.value = {"val"}

\* C13: a load_from_directory call ends in one of two ways.  With an
\* identifier that is not recognized it raises an exception whose message
\* names the identifier as given, no dataset is constructed and no archive
\* is opened.  Otherwise the identifier is a recognized one and the dataset
\* is constructed, without error, over the archive file of that identifier.
C13_UnrecognizedIdentifierFails ==
    /\ last.op = "load" =>
            /\ last.dataset_type \notin Recognized
            /\ last.status = "Exception"
            /\ last.message = InvalidMessage(last.dataset_type)
            /\ last.message.names = last.dataset_type
            /\ ds = NoDataset
            /\ opened = <<>>
    /\ (last.op = "init" /\ "loaded" \in DOMAIN last) =>
            /\ last.loaded \in Recognized
            /\ last.status = "ok"
            /\ ds # NoDataset
            /\ ds.path = DataPath(last.loaded)

C13_Witness ==
    /\ last.op = "load"
    /\ last.dataset_type = "val_state"
    /\ last.status = "Exception"
    /\ exists = Paths

\* The outcome of the operation of a finished worker when the operation is
\* run on the dataset with no other worker around, for the same tensor
\* from torch.randn: what dataset[idx] (StateGetItem, TrajGetItem),
\* unpadded_expert and md5_checksum give.
Sequential(me) ==
    LET file_ok == ds.path \in exists
        index_ok == IF me.op = "getitem" /\ ds.variant = "state"
                    THEN StateIndexOk(ds.path, ds.trajectory_key, me.idx)
                    ELSE ProblemIndexOk(ds.path, me.idx)
        status == IF me.op = "md5_checksum"
                  THEN IF file_ok THEN "ok" ELSE "OSError"
                  ELSE GetItemStatus(file_ok, index_ok)
    IN [status |-> status,
        value |-> CASE status # "ok" -> NoItem
                    [] me.op = "getitem" /\ ds.variant = "state" ->
                            StateItem(ds, me.idx, me.noise)
                    [] me.op = "getitem" /\ ds.variant = "trajectory" ->
                            TrajItem(ds, me.idx, me.noise)
                    [] me.op = "unpadded_expert" ->
                            expert(ds.path, ds.trajectory_key, me.idx)
                    [] me.op = "md5_checksum" -> Md5(ds.path)]

Inside(w) == workers[w].pc = "inside"

\* C14: every handle on the archive is read-only: __getitem__ and
\* unpadded_expert pass the mode "r" themselves; the constructor (for the
\* counts) and md5_checksum pass no mode and get the adapter's, which is
\* read-only.  A handle is open only while the operation that opened it is
\* inside its block, on the dataset's file; two workers inside their blocks
\* read through different handles, and the handle of a worker that is idle
\* or done is closed.  Whatever the other workers do meanwhile, an operation
\* ends as it does when run alone: same status, same value.
C14_HandlesReadOnlyAndScoped ==
    /\ \A i \in 1..Len(opened) : ReadOnly(opened[i].mode)
    /\ \A w \in Workers :
        LET me == workers[w]
            handle == handles[HandleOf(w)]
        IN /\ Inside(w) =>
                /\ handle.open
                /\ handle.path = ds.path
                /\ me.op \in {"getitem", "unpadded_expert"} => handle.mode = "r"
                /\ ReadOnly(handle.mode)
                /\ \A v \in Workers \ {w} : Inside(v) => HandleOf(v) # HandleOf(w)
           /\ ~Inside(w) => ~handle.open
           /\ me.pc = "done" =>
                /\ me.status = Sequential(me).status
                /\ me.value = Sequential(me).value
    /\ \A h \in DOMAIN handles :
        handles[h].open => \E w \in Workers : Inside(w) /\ HandleOf(w) = h

\* Worker w1 has finished a __getitem__ on a train dataset, with noise and
\* an item, that it began before and ended after worker w2 entered the
\* block of its md5_checksum, in which w2 still is; the constructor had
\* opened the archive for the counts.
C14_Witness ==
    /\ Len(opened) = 1
    /\ workers["w1"].pc = "done"
    /\ workers["w1"].op = "getitem"
    /\ workers["w1"].status = "ok"
    /\ workers["w1"].noise # ZeroNoise
    /\ workers["w1"].value # NoItem
    /\ Inside("w2")
    /\ workers["w2"].op = "md5_checksum"
    /\ Len(workers["w2"].got) = 1
    /\ handles["w2"].open

\* The last operation was a load_from_directory that constructed a dataset.
LoadedDataset == last.op = "init" /\ "loaded" \in DOMAIN last /\ ds # NoDataset

\* The one archive file of a subdirectory, in the layout of one file each.
OnlyFileOf(dir) ==
    CASE dir = "train" -> "train/train.hdf5"
      [] dir = "val" -> "val/val.hdf5"
      [] dir = "test" -> "test/test.hdf5"

\* C15: each of train/, val/ and test/ holds one archive file and
\* a recognized identifier resolves to the one file of its subdirectory, so
\* that identifiers resolving into the same subdirectory read the same file.
C15_OneFilePerSubdirectory ==
    LoadedDataset => ds.path = OnlyFileOf(EnclosingPath(last.loaded))

\* load_from_directory(dataset_type=MINI_TRAIN) has built a dataset over
\* val/mini_train.hdf5, an existing second archive file inside val/.
C15_Witness ==
    /\ LoadedDataset
    /\ last.loaded = "MINI_TRAIN"
    /\ ds.path = "val/mini_train.hdf5"
    /\ ds.path \in exists
    /\ ds.problem_count > 0

\* test_dataloader was called on a module whose data_test exists, that is
\* after setup("test") or setup(None).
TestLoaderAsked ==
    /\ last.op = "test_dataloader"
    /\ dm.data["test"] # NoDataset
    /\ dm.setups \cap {"test", "None"} # {}

\* C16: test_dataloader, called after setup with stage "test" or None,
\* returns a DataLoader over the test dataset: it does not return nothing
\* and does not succeed without a loader.
C16_TestDataloaderReturnsLoader ==
    TestLoaderAsked =>
        /\ last.status = "ok"
        /\ last.value # NoneValue
        /\ last.value.dataset = dm.data["test"]

\* test_dataloader is called after setup("test") on a file system that has
\* the test archive, and returns None without raising.
C16_Witness ==
    /\ TestLoaderAsked
    /\ "test/test.hdf5" \in exists
    /\ dm.data["test"].state_count > 0
    /\ last.status = "ok"
    /\ last.value = NoneValue

\* The splits whose dataset a setup of the given stage is to create.
StageSplits(stage) ==
    CASE stage = "fit" ->
            {"train", "val_state", "val", "mini_train", "val_pretrain"}
      [] stage = "test" -> {"test"}
      [] stage = "None" ->
            {"train", "val_state", "val", "mini_train", "val_pretrain", "test"}
      [] stage = "dagger" -> {"dagger"}
      [] OTHER -> {}

\* The splits whose stage has been set up so far.
SetUp == UNION {StageSplits(stage) : stage \in dm.setups}

\* C17: after any sequence of setup calls, the datasets that exist are
\* exactly those of the stages that were set up: "fit" gives train,
\* val_state, val, mini_train and val_pretrain, "test" gives test, None
\* gives those six, "dagger" gives dagger, any other stage gives nothing.
\* train_dataloader and val_dataloader return their loaders when "fit" or
\* None was set up and fail otherwise; dagger_dataloader returns its loader
\* when "dagger" was set up and fails otherwise.
C17_DatasetsFollowStages ==
    /\ \A split \in Splits : dm.data[split] # NoDataset <=> split \in SetUp
    /\ last.op = "setup" => last.status = "ok"
    /\ last.op = "train_dataloader" =>
            IF dm.setups \cap {"fit", "None"} # {}
            THEN last.status = "ok" /\ last.value.dataset = dm.data["train"]
            ELSE last.status = "AttributeError"
    /\ last.op = "val_dataloader" =>
            IF dm.setups \cap {"fit", "None"} # {}
            THEN /\ last.status = "ok"
                 /\ last.value["VAL_STATE"].dataset = dm.data["val_state"]
                 /\ last.value["VAL"].dataset = dm.data["val"]
                 /\ last.value["MINI_TRAIN"].dataset = dm.data["mini_train"]
                 /\ last.value["VAL_PRETRAIN"].dataset = dm.data["val_pretrain"]
            ELSE last.status = "AttributeError"
    /\ last.op = "dagger_dataloader" =>
            IF "dagger" \in dm.setups
            THEN last.status = "ok" /\ last.value.dataset = dm.data["dagger"]
            ELSE last.status = "AttributeError"

\* Only "dagger" and a stage without a branch were set up: the dagger
\* dataset exists and train_dataloader has just failed.
C17_Witness ==
    /\ dm.setups = {"dagger", "predict"}
    /\ dm.data["dagger"] # NoDataset
    /\ dm.data["train"] = NoDataset
    /\ last.op = "train_dataloader"
    /\ last.status = "AttributeError"
====
